---- MODULE Spec2Model ----
(***************************************************************************)
(* A model of cache_simulator.cpp: an L1 cache, an optional L2 cache and   *)
(* an optional victim cache, driven by a trace of read and write lines.    *)
(*                                                                         *)
(* A std::list<CacheBlock> is a sequence of blocks, front first.  A list   *)
(* iterator (and a CacheBlock* into the list) is the position of its node  *)
(* in that sequence: the positions an unordered_map holds are moved by     *)
(* arithmetic when a node is pushed in front of them or erased before      *)
(* them, which is what iterator stability of std::list amounts to.  The    *)
(* map is never rebuilt from the sequence.                                 *)
(***************************************************************************)
EXTENDS Integers, Sequences, FiniteSets, TLC

VARIABLES
    cfg,      \* the command line: argv[1..6] as integers
    L1,       \* Cache L1 (main)
    L2,       \* Cache* L2: << >> is nullptr, <<c>> points to c
    VC,       \* VictimCache* VC: << >> is nullptr, <<v>> points to v
    trace,    \* the lines of the trace file consumed so far
    last,     \* history: the route the last event took through the hierarchy
    opLog,    \* history: the CacheSet calls the last event made on L1
    stamp,    \* history: <<setIndex, tag>> -> event of the last promotion or insertion in L1
    dec       \* inputs and results of the address decomposition (SpecDecomp only)

vars == <<cfg, L1, L2, VC, trace, last, opLog, stamp, dec>>

----------------------------------------------------------------------------
(* Bounds and inputs *)

\* the longest trace file
MaxEvents == 4

\* the largest address and the largest blockSize / numSets of SpecDecomp
MaxDecAddr == 11
MaxDecGeom == 3

nullptr == 0

\* hexadecimal digit strings a trace line may carry: 0, 1, 2, 4
HexAddrs == {<<0>>, <<1>>, <<2>>, <<4>>}

\* the digit strings of the trace r 0, r 20, w 0, r 420
ScenarioAddrs == {<<0>>, <<2, 0>>, <<4, 2, 0>>}

Ops == {"r", "w"}

\* argv[1..6]
Argv(l1Size, l1Assoc, l1BlockSize, vcNumBlocks, l2Size, l2Assoc) ==
    [L1_SIZE |-> l1Size, L1_ASSOC |-> l1Assoc, L1_BLOCKSIZE |-> l1BlockSize,
     VC_NUM_BLOCKS |-> vcNumBlocks, L2_SIZE |-> l2Size, L2_ASSOC |-> l2Assoc]

\* the command lines of the small runs: L1 of one or two sets, of one or two
\* ways, with and without a victim cache and an L2, and one L1 whose size (3)
\* is no multiple of assoc * blockSize
Configs ==
    { Argv(2, 1, 2, 1, 0, 0), Argv(2, 1, 2, 0, 4, 1),
      Argv(4, 1, 2, 0, 0, 0), Argv(4, 1, 2, 1, 4, 1),
      Argv(4, 2, 2, 0, 0, 0), Argv(4, 2, 2, 1, 4, 2),
      Argv(3, 1, 2, 0, 0, 0) }

\* ./cache_sim 1024 1 32 0 0 0 trace
ScenarioCfg == Argv(1024, 1, 32, 0, 0, 0)

----------------------------------------------------------------------------
(* struct CacheBlock *)

CacheBlock == [tag |-> 0, valid |-> FALSE, dirty |-> FALSE]

----------------------------------------------------------------------------
(* struct CacheSet *)

\* CacheSet(int assoc): assoc default blocks in the list, an empty map
CacheSet(assoc) ==
    [blocks |-> [i \in 1..assoc |-> CacheBlock], blockMap |-> << >>]

\* the list with the node at position p erased
EraseAt(blocks, p) ==
    [i \in 1..(Len(blocks) - 1) |-> IF i < p THEN blocks[i] ELSE blocks[i + 1]]

\* the position a node at q has after the node at p was erased and one was pushed in front
AfterEraseAndPush(q, p) == IF q < p THEN q + 1 ELSE q

findBlock(set, tag) ==
    IF tag \in DOMAIN set.blockMap THEN set.blockMap[tag] ELSE nullptr

\* moveToMRU without its first line: the moved node stays where it was
moveToMRU_NoErase(set, block) ==
    LET copy == set.blocks[block]
    IN  [set EXCEPT
            !.blocks = <<copy>> \o set.blocks,
            !.blockMap = [k \in DOMAIN set.blockMap \cup {copy.tag} |->
                            IF k = copy.tag THEN 1 ELSE set.blockMap[k] + 1]]

\* moveToMRU without its last line: blockMap keeps the erased node's iterator
moveToMRU_StaleMap(set, block) ==
    LET tag == set.blocks[block].tag
        it == set.blockMap[tag]
        copy == set.blocks[block]
    IN  [set EXCEPT !.blocks = <<copy>> \o EraseAt(set.blocks, it)]

\* moveToMRU: blocks.erase frees the node that block points to, and push_front
\* then copies from that freed node. Its payload (tag, valid, dirty) lies behind
\* the two link pointers, the only part the allocator writes on free, so the
\* copy is the block as it was, whether or not the new node takes the freed
\* node's place.
moveToMRU(set, block) ==
    LET tag == set.blocks[block].tag
        it == set.blockMap[tag]
        copy == set.blocks[block]
    IN  [set EXCEPT
            !.blocks = <<copy>> \o EraseAt(set.blocks, it),
            !.blockMap = [k \in DOMAIN set.blockMap \cup {copy.tag} |->
                            IF k = copy.tag THEN 1
                            ELSE AfterEraseAndPush(set.blockMap[k], it)]]

\* evictLRU(): the set after it, and the block the returned pointer reads
evictLRU(set) ==
    LET lruBlock == set.blocks[Len(set.blocks)]
    IN  [set |-> [set EXCEPT
                    !.blocks = SubSeq(set.blocks, 1, Len(set.blocks) - 1),
                    !.blockMap = [k \in DOMAIN set.blockMap \ {lruBlock.tag} |->
                                    set.blockMap[k]]],
         evicted |-> lruBlock]

insertBlock(set, block) ==
    [set EXCEPT
        !.blocks = <<block>> \o set.blocks,
        !.blockMap = [k \in DOMAIN set.blockMap \cup {block.tag} |->
                        IF k = block.tag THEN 1 ELSE set.blockMap[k] + 1]]

isFull(set) == Cardinality(DOMAIN set.blockMap) = Len(set.blocks)

----------------------------------------------------------------------------
(* class Cache *)

\* Cache(int size, int assoc, int blockSize)
Cache(size, assoc, blockSize) ==
    LET numSets == size \div (assoc * blockSize)
    IN  [size |-> size, assoc |-> assoc, blockSize |-> blockSize,
         numSets |-> numSets,
         sets |-> [i \in 0..(numSets - 1) |-> CacheSet(assoc)],
         numReads |-> 0, numReadMisses |-> 0, numWrites |-> 0,
         numWriteMisses |-> 0, numWriteBacks |-> 0]

\* the set index taken from the address with its block offset left in
SetIndexOf_KeepsOffset(address, blockSize, numSets) == address % numSets

\* the address decomposition accessCache and writeToCache both start with
SetIndexOf(address, blockSize, numSets) == (address \div blockSize) % numSets

TagOf(address, blockSize, numSets) == address \div (blockSize * numSets)

\* one CacheSet call, for opLog: the set before and after it
Call(name, setIndex, tag, pre, post) ==
    [call |-> name, setIndex |-> setIndex, tag |-> tag, pre |-> pre, post |-> post]

\* accessCache that counts the access as a read itself
accessCache_CountsReads(cache, address) ==
    LET setIndex == SetIndexOf(address, cache.blockSize, cache.numSets)
        tag == TagOf(address, cache.blockSize, cache.numSets)
        set == cache.sets[setIndex]
        block == findBlock(set, tag)
        counted == [cache EXCEPT !.numReads = @ + 1]
    IN  IF block # nullptr
        THEN LET moved == moveToMRU(set, block)
             IN  [cache |-> [counted EXCEPT !.sets[setIndex] = moved],
                  block |-> block,
                  calls |-> <<Call("findBlock", setIndex, tag, set, set),
                              Call("moveToMRU", setIndex, tag, set, moved)>>]
        ELSE [cache |-> counted,
              block |-> nullptr,
              calls |-> <<Call("findBlock", setIndex, tag, set, set)>>]

\* accessCache that fetches the block into the set when it misses
accessCache_AllocatesOnMiss(cache, address) ==
    LET setIndex == SetIndexOf(address, cache.blockSize, cache.numSets)
        tag == TagOf(address, cache.blockSize, cache.numSets)
        set == cache.sets[setIndex]
        block == findBlock(set, tag)
        fetched == insertBlock(set, [tag |-> tag, valid |-> TRUE, dirty |-> FALSE])
    IN  IF block # nullptr
        THEN LET moved == moveToMRU(set, block)
             IN  [cache |-> [cache EXCEPT !.sets[setIndex] = moved],
                  block |-> block,
                  calls |-> <<Call("findBlock", setIndex, tag, set, set),
                              Call("moveToMRU", setIndex, tag, set, moved)>>]
        ELSE [cache |-> [cache EXCEPT !.sets[setIndex] = fetched],
              block |-> nullptr,
              calls |-> <<Call("findBlock", setIndex, tag, set, set),
                          Call("insertBlock", setIndex, tag, set, fetched)>>]

\* accessCache(address): the cache after it, the pointer it returns, its CacheSet calls
accessCache(cache, address) ==
    LET setIndex == SetIndexOf(address, cache.blockSize, cache.numSets)
        tag == TagOf(address, cache.blockSize, cache.numSets)
        set == cache.sets[setIndex]
        block == findBlock(set, tag)
    IN  IF block # nullptr
        THEN LET moved == moveToMRU(set, block)
             IN  [cache |-> [cache EXCEPT !.sets[setIndex] = moved],
                  block |-> block,
                  calls |-> <<Call("findBlock", setIndex, tag, set, set),
                              Call("moveToMRU", setIndex, tag, set, moved)>>]
        ELSE [cache |-> cache,
              block |-> nullptr,
              calls |-> <<Call("findBlock", setIndex, tag, set, set)>>]

\* writeToCache that inserts without looking the tag up
writeToCache_NoLookup(cache, address, reused) ==
    LET setIndex == SetIndexOf(address, cache.blockSize, cache.numSets)
        tag == TagOf(address, cache.blockSize, cache.numSets)
        set == cache.sets[setIndex]
        newBlock == [tag |-> tag, valid |-> TRUE, dirty |-> TRUE]
        inserted == insertBlock(set, newBlock)
    IN  [cache |-> [cache EXCEPT !.sets[setIndex] = inserted],
         calls |-> <<Call("insertBlock", setIndex, tag, set, inserted)>>]

\* writeToCache whose new block is not marked dirty
writeToCache_CleanInsert(cache, address, reused) ==
    LET setIndex == SetIndexOf(address, cache.blockSize, cache.numSets)
        tag == TagOf(address, cache.blockSize, cache.numSets)
        set == cache.sets[setIndex]
        block == findBlock(set, tag)
    IN  IF block # nullptr
        THEN LET moved == moveToMRU(set, block)
                 stored == IF reused
                           THEN [moved EXCEPT !.blocks[1].dirty = TRUE]
                           ELSE moved
             IN  [cache |-> [cache EXCEPT !.sets[setIndex] = stored],
                  calls |-> <<Call("findBlock", setIndex, tag, set, set),
                              Call("moveToMRU", setIndex, tag, set, moved)>>]
        ELSE LET newBlock == [tag |-> tag, valid |-> TRUE, dirty |-> FALSE]
                 full == isFull(set)
                 ev == evictLRU(set)
                 kept == IF full THEN ev.set ELSE set
                 inserted == insertBlock(kept, newBlock)
                 wb == IF full /\ ev.evicted.dirty THEN 1 ELSE 0
             IN  [cache |-> [cache EXCEPT !.sets[setIndex] = inserted,
                                          !.numWriteBacks = @ + wb],
                  calls |-> <<Call("findBlock", setIndex, tag, set, set)>>
                            \o (IF full
                                THEN <<Call("evictLRU", setIndex, ev.evicted.tag, set, ev.set)>>
                                ELSE << >>)
                            \o <<Call("insertBlock", setIndex, tag, kept, inserted)>>]

\* writeToCache(address).  On a hit, block->dirty = true is a store through the
\* pointer moveToMRU left dangling: it reaches the new front node when that node
\* took the freed node's place (reused), and freed memory otherwise.
writeToCache(cache, address, reused) ==
    LET setIndex == SetIndexOf(address, cache.blockSize, cache.numSets)
        tag == TagOf(address, cache.blockSize, cache.numSets)
        set == cache.sets[setIndex]
        block == findBlock(set, tag)
    IN  IF block # nullptr
        THEN LET moved == moveToMRU(set, block)
                 stored == IF reused
                           THEN [moved EXCEPT !.blocks[1].dirty = TRUE]
                           ELSE moved
             IN  [cache |-> [cache EXCEPT !.sets[setIndex] = stored],
                  calls |-> <<Call("findBlock", setIndex, tag, set, set),
                              Call("moveToMRU", setIndex, tag, set, moved)>>]
        ELSE LET newBlock == [tag |-> tag, valid |-> TRUE, dirty |-> TRUE]
                 full == isFull(set)
                 ev == evictLRU(set)
                 kept == IF full THEN ev.set ELSE set
                 inserted == insertBlock(kept, newBlock)
                 wb == IF full /\ ev.evicted.dirty THEN 1 ELSE 0
             IN  [cache |-> [cache EXCEPT !.sets[setIndex] = inserted,
                                          !.numWriteBacks = @ + wb],
                  calls |-> <<Call("findBlock", setIndex, tag, set, set)>>
                            \o (IF full
                                THEN <<Call("evictLRU", setIndex, ev.evicted.tag, set, ev.set)>>
                                ELSE << >>)
                            \o <<Call("insertBlock", setIndex, tag, kept, inserted)>>]

----------------------------------------------------------------------------
(* class VictimCache *)

\* VictimCache(int numBlocks)
VictimCache(numBlocks) ==
    [numBlocks |-> numBlocks,
     blocks |-> [i \in 1..numBlocks |-> CacheBlock],
     blockMap |-> << >>]

\* VictimCache::findBlock and VictimCache::moveToMRU repeat CacheSet's
VictimCache_findBlock(vc, tag) == findBlock(vc, tag)

VictimCache_moveToMRU(vc, block) == moveToMRU(vc, block)

----------------------------------------------------------------------------
(* simulateCacheHierarchy *)

\* sscanf "%lx": the value of a string of hexadecimal digits
RECURSIVE ParseHex(_)
ParseHex(digits) ==
    IF digits = << >> THEN 0
    ELSE 16 * ParseHex(SubSeq(digits, 1, Len(digits) - 1)) + digits[Len(digits)]

\* the branch op == 'r' of the loop body
simulateRead(l1, l2, vc, address) ==
    LET counted == [l1 EXCEPT !.numReads = @ + 1]
        acc == accessCache(counted, address)
        missed == [acc.cache EXCEPT !.numReadMisses = @ + 1]
        victimBlock == VictimCache_findBlock(vc[1], address)
    IN  IF acc.block # nullptr
        THEN [L1 |-> acc.cache, L2 |-> l2, VC |-> vc, calls |-> acc.calls,
              l1Hit |-> TRUE, vcLookup |-> FALSE, vcHit |-> FALSE, l2Access |-> FALSE]
        ELSE IF vc # << >>
        THEN IF victimBlock # nullptr
             THEN [L1 |-> missed, L2 |-> l2,
                   VC |-> <<VictimCache_moveToMRU(vc[1], victimBlock)>>,
                   calls |-> acc.calls,
                   l1Hit |-> FALSE, vcLookup |-> TRUE, vcHit |-> TRUE, l2Access |-> FALSE]
             ELSE IF l2 # << >>
             THEN [L1 |-> missed, L2 |-> <<accessCache(l2[1], address).cache>>, VC |-> vc,
                   calls |-> acc.calls,
                   l1Hit |-> FALSE, vcLookup |-> TRUE, vcHit |-> FALSE, l2Access |-> TRUE]
             ELSE [L1 |-> missed, L2 |-> l2, VC |-> vc, calls |-> acc.calls,
                   l1Hit |-> FALSE, vcLookup |-> TRUE, vcHit |-> FALSE, l2Access |-> FALSE]
        ELSE [L1 |-> missed, L2 |-> l2, VC |-> vc, calls |-> acc.calls,
              l1Hit |-> FALSE, vcLookup |-> FALSE, vcHit |-> FALSE, l2Access |-> FALSE]

\* the branch op == 'w' counting a miss once for accessCache and once for writeToCache
simulateWrite_DoubleMiss(l1, address, reused) ==
    LET counted == [l1 EXCEPT !.numWrites = @ + 1]
        acc == accessCache(counted, address)
        classified == IF acc.block = nullptr
                      THEN [acc.cache EXCEPT !.numWriteMisses = @ + 2]
                      ELSE acc.cache
        wr == writeToCache(classified, address, reused)
    IN  [L1 |-> wr.cache, calls |-> acc.calls \o wr.calls, l1Hit |-> acc.block # nullptr]

\* the branch op == 'w' without its count of write misses
simulateWrite_NoMissCount(l1, address, reused) ==
    LET counted == [l1 EXCEPT !.numWrites = @ + 1]
        acc == accessCache(counted, address)
        wr == writeToCache(acc.cache, address, reused)
    IN  [L1 |-> wr.cache, calls |-> acc.calls \o wr.calls, l1Hit |-> acc.block # nullptr]

\* the branch op == 'w' of the loop body
simulateWrite(l1, address, reused) ==
    LET counted == [l1 EXCEPT !.numWrites = @ + 1]
        acc == accessCache(counted, address)
        classified == IF acc.block = nullptr
                      THEN [acc.cache EXCEPT !.numWriteMisses = @ + 1]
                      ELSE acc.cache
        wr == writeToCache(classified, address, reused)
    IN  [L1 |-> wr.cache, calls |-> acc.calls \o wr.calls, l1Hit |-> acc.block # nullptr]

\* the addresses the lines of the trace file are drawn from
TraceAddrs == IF cfg = ScenarioCfg THEN ScenarioAddrs ELSE HexAddrs

\* history: the L1 block of address was promoted or inserted by event now
Touch(address, now) ==
    (<<SetIndexOf(address, L1.blockSize, L1.numSets),
       TagOf(address, L1.blockSize, L1.numSets)>> :> now) @@ stamp

\* one line "r <hex>" of the trace
Read(hex) ==
    LET address == ParseHex(hex)
        r == simulateRead(L1, L2, VC, address)
    IN  /\ Len(trace) < MaxEvents
        /\ trace' = Append(trace, [op |-> "r", hex |-> hex])
        /\ L1' = r.L1
        /\ L2' = r.L2
        /\ VC' = r.VC
        /\ last' = [op |-> "r", address |-> address, l1Hit |-> r.l1Hit,
                    vcLookup |-> r.vcLookup, vcHit |-> r.vcHit, l2Access |-> r.l2Access]
        /\ opLog' = r.calls
        /\ stamp' = IF r.l1Hit THEN Touch(address, Len(trace) + 1) ELSE stamp
        /\ UNCHANGED <<cfg, dec>>

\* one line "w <hex>" of the trace
Write(hex) ==
    LET address == ParseHex(hex)
    IN  \E reused \in BOOLEAN :
          LET w == simulateWrite(L1, address, reused)
          IN  /\ Len(trace) < MaxEvents
              /\ trace' = Append(trace, [op |-> "w", hex |-> hex])
              /\ L1' = w.L1
              /\ last' = [op |-> "w", address |-> address, l1Hit |-> w.l1Hit,
                          vcLookup |-> FALSE, vcHit |-> FALSE, l2Access |-> FALSE]
              /\ opLog' = w.calls
              /\ stamp' = Touch(address, Len(trace) + 1)
              /\ UNCHANGED <<cfg, L2, VC, dec>>

----------------------------------------------------------------------------
(* main *)

NoEvent ==
    [op |-> "none", address |-> 0, l1Hit |-> FALSE,
     vcLookup |-> FALSE, vcHit |-> FALSE, l2Access |-> FALSE]

NoDec == [a1 |-> 0, a2 |-> 0, b |-> 1, n |-> 1, done |-> FALSE,
          p1 |-> <<0, 0>>, p2 |-> <<0, 0>>]

\* main up to the call of simulateCacheHierarchy, for the command line c
main(c) ==
    /\ cfg = c
    /\ L1 = Cache(c.L1_SIZE, c.L1_ASSOC, c.L1_BLOCKSIZE)
    /\ L2 = IF c.L2_SIZE > 0
            THEN <<Cache(c.L2_SIZE, c.L2_ASSOC, c.L1_BLOCKSIZE)>>
            ELSE << >>
    /\ VC = IF c.VC_NUM_BLOCKS > 0 THEN <<VictimCache(c.VC_NUM_BLOCKS)>> ELSE << >>
    /\ trace = << >>
    /\ last = NoEvent
    /\ opLog = << >>
    /\ stamp = << >>

Init == (\E c \in Configs : main(c)) /\ dec = NoDec

Next ==
    \/ \E hex \in TraceAddrs : Read(hex)
    \/ \E hex \in TraceAddrs : Write(hex)

Spec == Init /\ [][Next]_vars

\* the run of the end-to-end scenario: L1 of 1024 bytes, direct mapped, 32-byte blocks
InitScenario == main(ScenarioCfg) /\ dec = NoDec

SpecScenario == InitScenario /\ [][Next]_vars

----------------------------------------------------------------------------
(* The address decomposition on its own *)

InitDecomp ==
    /\ main(CHOOSE c \in Configs : TRUE)
    /\ dec \in [a1 : 0..MaxDecAddr, a2 : 0..MaxDecAddr,
                b : 1..MaxDecGeom, n : 1..MaxDecGeom, done : {FALSE},
                p1 : {<<0, 0>>}, p2 : {<<0, 0>>}]

Decompose ==
    /\ ~dec.done
    /\ dec' = [dec EXCEPT
                 !.done = TRUE,
                 !.p1 = <<SetIndexOf(dec.a1, dec.b, dec.n), TagOf(dec.a1, dec.b, dec.n)>>,
                 !.p2 = <<SetIndexOf(dec.a2, dec.b, dec.n), TagOf(dec.a2, dec.b, dec.n)>>]
    /\ UNCHANGED <<cfg, L1, L2, VC, trace, last, opLog, stamp>>

SpecDecomp == InitDecomp /\ [][Decompose]_vars

----------------------------------------------------------------------------
(* Properties *)

\* the tags findable through the set's tag map
Resident(set) == DOMAIN set.blockMap

\* every CacheSet of the hierarchy, the victim cache as one more
AllSets ==
    {L1.sets[i] : i \in DOMAIN L1.sets}
    \cup (IF L2 # << >> THEN {L2[1].sets[i] : i \in DOMAIN L2[1].sets} ELSE {})
    \cup (IF VC # << >> THEN {[blocks |-> VC[1].blocks, blockMap |-> VC[1].blockMap]}
          ELSE {})

\* the resident tag that is last in the list order of a set with a resident block
LruTag(set) ==
    CHOOSE t \in Resident(set) :
        \A u \in Resident(set) : set.blockMap[u] <= set.blockMap[t]

\* the line "w <hex>" is the event of this step
IsWrite(hex) == trace' = Append(trace, [op |-> "w", hex |-> hex])

IsRead(hex) == trace' = Append(trace, [op |-> "r", hex |-> hex])

\* C1: every set of L1 holds at most assoc resident blocks, in every
\* reachable state.
C1_AssocBound ==
    \A i \in DOMAIN L1.sets : Cardinality(Resident(L1.sets[i])) <= L1.assoc

\* C2: in every L1 set with a resident block, the back element of the list,
\* the one evictLRU would remove, is a resident block, and no resident block
\* of the set was promoted or inserted earlier than it.
C2_BackIsLeastRecent ==
    \A i \in DOMAIN L1.sets :
        LET set == L1.sets[i]
            back == set.blocks[Len(set.blocks)]
        IN  Resident(set) # {} =>
                /\ back.valid
                /\ back.tag \in Resident(set)
                /\ set.blockMap[back.tag] = Len(set.blocks)
                /\ \A t \in Resident(set) : stamp[<<i, back.tag>>] <= stamp[<<i, t>>]

\* C3: a write that misses in L1 on a set that holds assoc resident blocks
\* evicts the least recently used one and adds 1 to L1.numWriteBacks if that
\* block was dirty and 0 if it was clean; no other step changes numWriteBacks.
C3_WriteBackAccounting ==
    [][ \A hex \in TraceAddrs :
            LET address == ParseHex(hex)
                i == SetIndexOf(address, L1.blockSize, L1.numSets)
                tag == TagOf(address, L1.blockSize, L1.numSets)
                set == L1.sets[i]
                lru == LruTag(set)
            IN  /\ (IsWrite(hex) /\ tag \notin Resident(set)
                        /\ Cardinality(Resident(set)) = L1.assoc)
                    => /\ lru \notin Resident(L1'.sets[i])
                       /\ L1'.numWriteBacks = L1.numWriteBacks +
                            (IF set.blocks[set.blockMap[lru]].dirty THEN 1 ELSE 0)
                /\ (IsRead(hex)
                        \/ (IsWrite(hex) /\ (tag \in Resident(set)
                                \/ Cardinality(Resident(set)) # L1.assoc)))
                    => L1'.numWriteBacks = L1.numWriteBacks ]_vars

\* C4: isFull() is true exactly when the number of resident blocks of the set
\* equals its associativity.
C4_IsFullIffAssocResident ==
    \A i \in DOMAIN L1.sets :
        isFull(L1.sets[i]) <=> (Cardinality(Resident(L1.sets[i])) = L1.assoc)

\* the tag map and the list of a set agree
Consistent(set) ==
    /\ \A t \in DOMAIN set.blockMap :
          /\ set.blockMap[t] \in 1..Len(set.blocks)
          /\ set.blocks[set.blockMap[t]].tag = t
          /\ \A u \in DOMAIN set.blockMap : set.blockMap[u] = set.blockMap[t] => u = t
    /\ \A p \in 1..Len(set.blocks) :
          set.blocks[p].valid => set.blocks[p].tag \in DOMAIN set.blockMap

\* C5: after every findBlock, moveToMRU, insertBlock and evictLRU call an
\* event makes, and in every set of every cache between events, each tag of
\* blockMap locates one block of the list, that block carries the tag, and
\* every valid block of the list has its tag in blockMap.
C5_MapListConsistent ==
    /\ \A set \in AllSets : Consistent(set)
    /\ \A k \in 1..Len(opLog) : Consistent(opLog[k].post)

\* a write hit on a block that was not in front, in a set that another
\* insertion followed: both moveToMRU and insertBlock have reordered the set
C5_Witness ==
    /\ last.op = "w"
    /\ \E k \in 1..Len(opLog) :
          /\ opLog[k].call = "moveToMRU"
          /\ opLog[k].pre.blockMap[opLog[k].tag] > 1
          /\ Cardinality(Resident(opLog[k].post)) >= 2

\* C6: no set of any cache holds two valid blocks with the same tag.
C6_NoDuplicateTags ==
    \A set \in AllSets :
        \A p, q \in 1..Len(set.blocks) :
            (p # q /\ set.blocks[p].valid /\ set.blocks[q].valid)
                => set.blocks[p].tag # set.blocks[q].tag

\* a second write to a block that is resident among other valid blocks
C6_Witness ==
    /\ last.op = "w"
    /\ last.l1Hit
    /\ \E i \in DOMAIN L1.sets :
          /\ i = SetIndexOf(last.address, L1.blockSize, L1.numSets)
          /\ Cardinality({p \in 1..Len(L1.sets[i].blocks) : L1.sets[i].blocks[p].valid}) >= 2

\* C7: two addresses get the same (setIndex, tag) pair exactly when they lie
\* in the same block, a1 / b = a2 / b, for every block size b and number of
\* sets n.
C7_SamePairIffSameBlock ==
    dec.done =>
        ((dec.p1 = dec.p2) <=> (dec.a1 \div dec.b = dec.a2 \div dec.b))

\* two different addresses of one block, decomposed to the same pair, where
\* the block is not the whole address space of a set
C7_Witness ==
    /\ dec.done
    /\ dec.a1 # dec.a2
    /\ dec.p1 = dec.p2
    /\ dec.n > 1
    /\ dec.p1[2] > 0

\* r 0, r 20, w 0, r 420
ScenarioTrace ==
    << [op |-> "r", hex |-> <<0>>], [op |-> "r", hex |-> <<2, 0>>],
       [op |-> "w", hex |-> <<0>>], [op |-> "r", hex |-> <<4, 2, 0>>] >>

\* C8 as stated: the trace r 0, r 20, w 0, r 420 on L1 of size 1024, assoc 1,
\* blockSize 32 ends with reads = 3, read misses = 2, writes = 1, write
\* misses = 0.
C8_ScenarioAsStated ==
    (cfg = ScenarioCfg /\ trace = ScenarioTrace)
        => /\ L1.numReads = 3
           /\ L1.numReadMisses = 2
           /\ L1.numWrites = 1
           /\ L1.numWriteMisses = 0

\* C8, amended: the same run ends with reads = 3, read misses = 3, writes = 1,
\* write misses = 1: no read allocates, so all three reads miss and the write
\* to 0 finds no block.
C8_ScenarioCounters ==
    (cfg = ScenarioCfg /\ trace = ScenarioTrace)
        => /\ L1.numReads = 3
           /\ L1.numReadMisses = 3
           /\ L1.numWrites = 1
           /\ L1.numWriteMisses = 1
           /\ L1.numWriteBacks = 0

C8_Witness == cfg = ScenarioCfg /\ trace = ScenarioTrace

\* C9: with a victim cache of one block, a write that evicts a block from L1
\* (a miss on a set that holds assoc resident blocks) leaves that block in the
\* victim cache, and a read that misses L1 for an address the victim cache
\* holds hits the victim cache and does not go on to L2.
C9_VictimReuse ==
    [][ (VC # << >> /\ VC[1].numBlocks = 1) =>
          \A hex \in TraceAddrs :
            LET address == ParseHex(hex)
                i == SetIndexOf(address, L1.blockSize, L1.numSets)
                tag == TagOf(address, L1.blockSize, L1.numSets)
                set == L1.sets[i]
            IN  /\ (IsWrite(hex) /\ tag \notin Resident(set)
                        /\ Cardinality(Resident(set)) = L1.assoc)
                    => /\ LruTag(set) \notin Resident(L1'.sets[i])
                       /\ Resident(VC'[1]) # {}
                /\ (IsRead(hex) /\ tag \notin Resident(set)
                        /\ address \in Resident(VC[1]))
                    => (last'.vcHit /\ ~last'.l2Access) ]_vars

\* C10: a read that misses in L1 reaches L2 in the same event whenever an L2
\* exists and either there is no victim cache or its lookup misses.
C10_L2Routing ==
    (last.op = "r" /\ ~last.l1Hit /\ L2 # << >> /\ (VC = << >> \/ ~last.vcHit))
        => last.l2Access

\* C11: a read whose block is not resident in L1 leaves every L1 set as it
\* was (resident tags, dirty flags, order), and no read adds a resident block
\* to any L1 set: the resident blocks of L1 grow only in a write.
C11_ReadMissDoesNotAllocate ==
    [][ \A hex \in TraceAddrs :
            LET address == ParseHex(hex)
                i == SetIndexOf(address, L1.blockSize, L1.numSets)
                tag == TagOf(address, L1.blockSize, L1.numSets)
            IN  IsRead(hex) =>
                    /\ tag \notin Resident(L1.sets[i]) => L1'.sets = L1.sets
                    /\ \A j \in DOMAIN L1.sets :
                          Resident(L1'.sets[j]) \subseteq Resident(L1.sets[j]) ]_vars

\* a read has just missed in an L1 that holds a block of the same set
C11_Witness ==
    /\ last.op = "r"
    /\ ~last.l1Hit
    /\ Resident(L1.sets[SetIndexOf(last.address, L1.blockSize, L1.numSets)]) # {}

\* C12: every cache that processes an event has size = numSets * assoc *
\* blockSize with all three dimensions positive; a command line that breaks
\* this ends in a configuration error before the first event.
C12_ConfigChecked ==
    trace # << >> =>
        \A c \in {L1} \cup (IF L2 # << >> THEN {L2[1]} ELSE {}) :
            /\ c.size > 0 /\ c.assoc > 0 /\ c.blockSize > 0
            /\ c.size = c.numSets * c.assoc * c.blockSize

\* C13: every write adds exactly 1 to L1.numWrites, and adds 1 to
\* L1.numWriteMisses if the addressed block was not resident in L1 before the
\* event and 0 if it was; writeToCache itself changes neither counter.
C13_WriteClassification ==
    [][ \A hex \in TraceAddrs :
            LET address == ParseHex(hex)
                i == SetIndexOf(address, L1.blockSize, L1.numSets)
                tag == TagOf(address, L1.blockSize, L1.numSets)
            IN  /\ IsWrite(hex) =>
                     /\ L1'.numWrites = L1.numWrites + 1
                     /\ L1'.numWriteMisses = L1.numWriteMisses +
                           (IF tag \in Resident(L1.sets[i]) THEN 0 ELSE 1)
                /\ \A reused \in BOOLEAN :
                     LET wr == writeToCache(L1, address, reused).cache
                     IN  /\ wr.numWrites = L1.numWrites
                         /\ wr.numWriteMisses = L1.numWriteMisses ]_vars

\* a write has hit after an earlier write missed
C13_Witness ==
    /\ last.op = "w"
    /\ last.l1Hit
    /\ L1.numWriteMisses >= 1
    /\ L1.numWrites > L1.numWriteMisses

\* C14: right after a write to address A, the block of A is resident in its
\* L1 set, is the front (most recently used) block of that set, and is valid
\* and dirty.
C14_WritePostcondition ==
    last.op = "w" =>
        LET i == SetIndexOf(last.address, L1.blockSize, L1.numSets)
            tag == TagOf(last.address, L1.blockSize, L1.numSets)
            set == L1.sets[i]
        IN  /\ tag \in Resident(set)
            /\ set.blockMap[tag] = 1
            /\ set.blocks[1] = [tag |-> tag, valid |-> TRUE, dirty |-> TRUE]

\* a write has hit a block that was behind another resident block
C14_Witness ==
    /\ last.op = "w"
    /\ last.l1Hit
    /\ \E k \in 1..Len(opLog) :
          /\ opLog[k].call = "moveToMRU"
          /\ opLog[k].pre.blockMap[opLog[k].tag] > 1

\* C15: each read that reaches L2 adds exactly 1 to L2.numReads, and 1 to
\* L2.numReadMisses if its block is not resident in L2; L2.numReads is the
\* number of events routed to L2.
C15_L2Statistics ==
    [][ \A hex \in TraceAddrs :
            (IsRead(hex) /\ last'.l2Access) =>
                LET address == ParseHex(hex)
                    i == SetIndexOf(address, L2[1].blockSize, L2[1].numSets)
                    tag == TagOf(address, L2[1].blockSize, L2[1].numSets)
                IN  /\ L2'[1].numReads = L2[1].numReads + 1
                    /\ L2'[1].numReadMisses = L2[1].numReadMisses +
                          (IF tag \in Resident(L2[1].sets[i]) THEN 0 ELSE 1) ]_vars

\* C16: after n events L1.numReads + L1.numWrites = n; a read changes no write
\* counter, a write changes no read counter, and a read adds 1 to
\* L1.numReadMisses exactly when its block was not resident in L1 before it.
C16_NoDoubleCounting ==
    /\ [](L1.numReads + L1.numWrites = Len(trace))
    /\ [][ \A hex \in TraceAddrs :
            LET address == ParseHex(hex)
                i == SetIndexOf(address, L1.blockSize, L1.numSets)
                tag == TagOf(address, L1.blockSize, L1.numSets)
            IN  /\ IsRead(hex) =>
                     /\ L1'.numReads = L1.numReads + 1
                     /\ L1'.numWrites = L1.numWrites
                     /\ L1'.numWriteMisses = L1.numWriteMisses
                     /\ L1'.numWriteBacks = L1.numWriteBacks
                     /\ L1'.numReadMisses = L1.numReadMisses +
                           (IF tag \in Resident(L1.sets[i]) THEN 0 ELSE 1)
                /\ IsWrite(hex) =>
                     /\ L1'.numReads = L1.numReads
                     /\ L1'.numReadMisses = L1.numReadMisses
                     /\ L1'.numWrites = L1.numWrites + 1 ]_vars

\* reads that hit and missed, and a write, have all been counted
C16_Witness ==
    /\ L1.numReadMisses >= 1
    /\ L1.numReads > L1.numReadMisses
    /\ L1.numWrites >= 1
    /\ last.op = "r"

\* the call moved the block of its tag to the front and changed nothing else
\* of the set: same resident tags, same number of blocks, the other blocks in
\* the order they had
PureReordering(call) ==
    LET p == call.pre.blockMap[call.tag]
    IN  /\ Resident(call.post) = Resident(call.pre)
        /\ Len(call.post.blocks) = Len(call.pre.blocks)
        /\ call.post.blocks[1] = call.pre.blocks[p]
        /\ call.post.blockMap[call.tag] = 1
        /\ \A q \in 1..Len(call.pre.blocks) :
              /\ q < p => call.post.blocks[q + 1] = call.pre.blocks[q]
              /\ q > p => call.post.blocks[q] = call.pre.blocks[q]

\* C17: a hit (accessCache, or the hit branch of writeToCache) moves the hit
\* block to the front and leaves the resident tags of the set, the number of
\* its blocks, the relative order of the other blocks and every other set
\* unchanged.
C17_PromotionIsReordering ==
    [][ /\ \A k \in 1..Len(opLog') :
              opLog'[k].call = "moveToMRU" => PureReordering(opLog'[k])
        /\ \A hex \in TraceAddrs :
              LET address == ParseHex(hex)
                  i == SetIndexOf(address, L1.blockSize, L1.numSets)
                  tag == TagOf(address, L1.blockSize, L1.numSets)
              IN  ((IsRead(hex) \/ IsWrite(hex)) /\ tag \in Resident(L1.sets[i])) =>
                      /\ PureReordering(Call("moveToMRU", i, tag, L1.sets[i], L1'.sets[i]))
                      /\ \A j \in DOMAIN L1.sets \ {i} : L1'.sets[j] = L1.sets[j] ]_vars

\* a read has hit a block that was behind another block, in a cache of two sets
C17_Witness ==
    /\ last.op = "r"
    /\ last.l1Hit
    /\ L1.numSets = 2
    /\ \E k \in 1..Len(opLog) :
          /\ opLog[k].call = "moveToMRU"
          /\ opLog[k].pre.blockMap[opLog[k].tag] > 1

\* C18: no event calls evictLRU on a set without a resident block, insertBlock
\* on a set that holds assoc resident blocks or holds the inserted tag, or
\* moveToMRU for a tag that is not resident.
C18_CallDiscipline ==
    \A k \in 1..Len(opLog) :
        LET call == opLog[k]
        IN  /\ call.call = "evictLRU" => Resident(call.pre) # {}
            /\ call.call = "insertBlock" =>
                  /\ Cardinality(Resident(call.pre)) < L1.assoc
                  /\ call.tag \notin Resident(call.pre)
            /\ call.call = "moveToMRU" => call.tag \in Resident(call.pre)

\* the counters of one cache are in range
CountersSane(c) ==
    /\ 0 <= c.numReadMisses /\ c.numReadMisses <= c.numReads
    /\ 0 <= c.numWriteMisses /\ c.numWriteMisses <= c.numWrites
    /\ c.numWriteBacks <= c.numWriteMisses

\* no counter of cache d is below its value in c
CountersGrow(c, d) ==
    /\ c.numReads <= d.numReads
    /\ c.numReadMisses <= d.numReadMisses
    /\ c.numWrites <= d.numWrites
    /\ c.numWriteMisses <= d.numWriteMisses
    /\ c.numWriteBacks <= d.numWriteBacks

\* C19: for L1 and L2, always 0 <= numReadMisses <= numReads, 0 <=
\* numWriteMisses <= numWrites and numWriteBacks <= numWriteMisses, and no
\* event decreases a counter.
C19_CounterSanity ==
    /\ [](CountersSane(L1) /\ (L2 # << >> => CountersSane(L2[1])))
    /\ [][ /\ CountersGrow(L1, L1')
           /\ L2 # << >> => CountersGrow(L2[1], L2'[1]) ]_vars

\* reads and writes have both hit and missed
C19_Witness ==
    /\ L1.numReadMisses >= 1
    /\ L1.numReads > L1.numReadMisses
    /\ L1.numWriteMisses >= 1
    /\ L1.numWrites > L1.numWriteMisses

\* C20: no event changes the blocks of L2 or of the victim cache; both hold
\* no resident block in any reachable state, so every L2 access and every
\* lookup in the victim cache misses.
C20_LowerLevelsStayEmpty ==
    /\ [](/\ L2 # << >> =>
                /\ \A i \in DOMAIN L2[1].sets : Resident(L2[1].sets[i]) = {}
                /\ \A hex \in TraceAddrs :
                      accessCache(L2[1], ParseHex(hex)).block = nullptr
          /\ VC # << >> =>
                /\ Resident(VC[1]) = {}
                /\ \A hex \in TraceAddrs :
                      VictimCache_findBlock(VC[1], ParseHex(hex)) = nullptr
          /\ ~last.vcHit)
    /\ [][ /\ L2 # << >> => L2'[1].sets = L2[1].sets
           /\ VC' = VC ]_vars

\* a read has missed L1, looked the victim cache up and gone on to L2, with
\* blocks resident in L1
C20_Witness ==
    /\ last.op = "r"
    /\ last.vcLookup
    /\ last.l2Access
    /\ \E i \in DOMAIN L1.sets : Resident(L1.sets[i]) # {}

====
